---- MODULE Spec2Model ----
(***************************************************************************)
(* Model of src/app.py (pdf_translate_deep.py): extraction                 *)
(* (extract_blocks_from_pdf), the retry helper translate_with_retry, the   *)
(* concurrent pipeline translate_blocks_deep, the font-fit helper          *)
(* insert_textbox_fitted, composition (replace_blocks_in_pdf) and          *)
(* __main__, which runs the three stages in turn.                          *)
(*                                                                         *)
(* A text is a sequence of one-character strings; the empty text is <<>>.  *)
(* Delays are in milliseconds (sleep_between = 0.5 s is 500).              *)
(***************************************************************************)
EXTENDS Integers, Sequences, FiniteSets, TLC

(* ------------------------------------------------------------------ *)
(* Bounds of the model                                                  *)
(* ------------------------------------------------------------------ *)
\* largest `retries` argument tried on translate_with_retry alone
MaxRetries == 3
\* largest number of blocks in a document
MaxBlocks == 3
\* largest `workers` argument
MaxWorkers == 2
\* largest initial_fontsize argument
MaxFontsize == 12
\* pages of the document replace_blocks_in_pdf opens
MaxPages == 3

(* ------------------------------------------------------------------ *)
(* Program constants                                                    *)
(* ------------------------------------------------------------------ *)
\* translate_with_retry(..., retries=3, sleep_between=0.5)
DefaultRetries == 3
DefaultSleepBetween == 500
\* translate_blocks_deep(..., pause_between_calls=0.02)
DefaultPause == 20
\* insert_textbox_fitted(..., initial_fontsize=10, min_fontsize=6,
\* line_spacing_mult=1.15); the multiplier is kept in hundredths
DefaultInitialFontsize == 10
DefaultMinFontsize == 6
LineSpacingMult100 == 115
\* line 131: max(20, ...)
MinCharsPerLine == 20
\* line 22: len(block) < 5
MinFields == 5
\* line 162: inset = 0.5, kept in tenths of a page unit
Inset10 == 5
\* line 187: workers=4
MainWorkers == 4

(* ------------------------------------------------------------------ *)
(* Texts                                                                *)
(* ------------------------------------------------------------------ *)
NoText == <<>>

\* the texts of extracted blocks: non-empty and trimmed (lines 25-28)
SrcTexts == << <<"a">>, <<"a", " ", "b">> >>

\* texts handed to translate_with_retry when it is exercised alone
RetryTexts == { NoText, <<"a">>, <<"a", " ", "b">> }

\* texts a successful backend call may return (a translation, or a
\* whitespace-only string, which Python treats as true)
BackendTexts == { <<"x">>, <<" ">> }

\* sleep_between arguments tried on translate_with_retry alone
SleepChoices == { DefaultSleepBetween, 20 }

(* ------------------------------------------------------------------ *)
(* The translation backend: one call returns a value or raises          *)
(* ------------------------------------------------------------------ *)
RaiseOutcome == [kind |-> "raise", val |-> NoText]
NoneOutcome == [kind |-> "none", val |-> NoText]
OkOutcome(v) == [kind |-> "ok", val |-> v]

\* what translator.translate(text) can hand back to line 48: a non-empty
\* string, the empty string or None
ReturnOutcomes == { OkOutcome(v) : v \in BackendTexts \cup {NoText} } \cup { NoneOutcome }

\* Python's `not translated` (line 49): None and "" are false
FalsyOnlyNone(r) == r.kind = "none"
Falsy(r) == r.kind = "none" \/ r.val = NoText

(* ------------------------------------------------------------------ *)
(* translate_with_retry (lines 39-60) as a frame                        *)
(*   pc: "none" not called, "call" inside translator.translate,        *)
(*       "sleep" inside time.sleep(backoff), "ret" returned,           *)
(*       "raised" an exception left the function                       *)
(*   calls, outcomes, sleeps record what the frame did                 *)
(* ------------------------------------------------------------------ *)
NoFrame ==
    [pc |-> "none", text |-> NoText, retries |-> 0, sleep_between |-> 0,
     attempt |-> 0, calls |-> 0, outcomes |-> <<>>, sleeps |-> <<>>,
     ret |-> NoText]

RECURSIVE Pow2(_)
Pow2(n) == IF n <= 0 THEN 1 ELSE 2 * Pow2(n - 1)

\* line 57: backoff = sleep_between * (2 ** (attempt - 1))
BackoffDoubledEarly(sleep_between, attempt) == sleep_between * Pow2(attempt)
Backoff(sleep_between, attempt) == sleep_between * Pow2(attempt - 1)

\* line 53: if attempt == retries
LastAttemptOneLate(f) == f.attempt = f.retries + 1
LastAttempt(f) == f.attempt = f.retries

\* lines 40-45: the early return for a false text, then the first pass of
\* `for attempt in range(1, retries + 1)`; with retries < 1 the loop body
\* never runs and line 60 returns the text
EnterTWR(text, retries, sleep_between) ==
    LET f == [NoFrame EXCEPT !.text = text, !.retries = retries,
                             !.sleep_between = sleep_between]
    IN  IF text = NoText
        THEN [f EXCEPT !.pc = "ret", !.ret = NoText]
        ELSE IF retries < 1
        THEN [f EXCEPT !.pc = "ret", !.ret = text]
        ELSE [f EXCEPT !.pc = "call", !.attempt = 1, !.calls = 1]

\* lines 48-51: the call returned r
OnReturnNoFallback(f, r) ==
    [f EXCEPT !.pc = "ret", !.outcomes = Append(@, r), !.ret = r.val]
OnReturnKeepsSource(f, r) ==
    [f EXCEPT !.pc = "ret", !.outcomes = Append(@, r), !.ret = f.text]
OnReturn(f, r) ==
    [f EXCEPT !.pc = "ret", !.outcomes = Append(@, r),
              !.ret = IF Falsy(r) THEN f.text ELSE r.val]

\* lines 52-59: the call raised
OnExceptionGivesUpEmpty(f) ==
    LET g == [f EXCEPT !.outcomes = Append(@, RaiseOutcome)]
    IN  IF LastAttempt(f)
        THEN [g EXCEPT !.pc = "ret", !.ret = NoText]
        ELSE [g EXCEPT !.pc = "sleep",
                       !.sleeps = Append(@, Backoff(f.sleep_between, f.attempt))]
OnExceptionReraises(f) ==
    LET g == [f EXCEPT !.outcomes = Append(@, RaiseOutcome)]
    IN  IF LastAttempt(f)
        THEN [g EXCEPT !.pc = "raised"]
        ELSE [g EXCEPT !.pc = "sleep",
                       !.sleeps = Append(@, Backoff(f.sleep_between, f.attempt))]
OnException(f) ==
    LET g == [f EXCEPT !.outcomes = Append(@, RaiseOutcome)]
    IN  IF LastAttempt(f)
        THEN [g EXCEPT !.pc = "ret", !.ret = f.text]
        ELSE [g EXCEPT !.pc = "sleep",
                       !.sleeps = Append(@, Backoff(f.sleep_between, f.attempt))]

\* line 59 returns from time.sleep; the loop takes the next attempt, or,
\* when range(1, retries + 1) is exhausted, line 60 returns the text
AfterSleepGivesUp(f) ==
    [f EXCEPT !.pc = "ret", !.ret = f.text]
AfterSleep(f) ==
    IF f.attempt >= f.retries
    THEN [f EXCEPT !.pc = "ret", !.ret = f.text]
    ELSE [f EXCEPT !.pc = "call", !.attempt = @ + 1, !.calls = @ + 1]

(* ------------------------------------------------------------------ *)
(* insert_textbox_fitted (lines 113-145) as a frame                     *)
(*   pc: "none" not called, "loop" at the while test (line 130),       *)
(*       "insert" in page.insert_textbox of line 138,                  *)
(*       "insert_retry" in that of line 140, "insert_last" in that of  *)
(*       line 145, "ret" returned, "raised" an exception left it       *)
(*   iters counts executions of the loop body; inserts lists the font  *)
(*   sizes passed to page.insert_textbox                               *)
(* Rectangle sides are whole numbers of page units; for them the       *)
(* floating-point test of line 136 and the integer test below agree.   *)
(* ------------------------------------------------------------------ *)
NoFit ==
    [pc |-> "none", text |-> NoText, rect_w |-> 0, rect_h |-> 0,
     initial_fontsize |-> 0, min_fontsize |-> 0, fontsize |-> 0,
     iters |-> 0, inserts |-> <<>>]

IsSpace(c) == c = " "

\* str.strip(): drop the whitespace at both ends
RECURSIVE LStrip(_)
LStrip(t) == IF t # <<>> /\ IsSpace(Head(t)) THEN LStrip(Tail(t)) ELSE t

RECURSIVE RStrip(_)
RStrip(t) ==
    IF t # <<>> /\ IsSpace(t[Len(t)]) THEN RStrip(SubSeq(t, 1, Len(t) - 1)) ELSE t

Strip(t) == RStrip(LStrip(t))

Max(a, b) == IF a >= b THEN a ELSE b

\* math.ceil(a / b) for a >= 0, b > 0
CeilDiv(a, b) == (a + b - 1) \div b

\* line 131: max(20, int(rect_w / (fontsize * 0.5)))
EstCharsPerLineNoMinimum(rect_w, fontsize) ==
    (2 * rect_w) \div fontsize
EstCharsPerLine(rect_w, fontsize) ==
    Max(MinCharsPerLine, (2 * rect_w) \div fontsize)

\* lines 132-133
EstimatedLines(n, rect_w, fontsize) == CeilDiv(n, EstCharsPerLine(rect_w, fontsize))

\* lines 134 and 136: needed_height <= rect_h, in hundredths
HeightFits(n, rect_w, rect_h, fontsize) ==
    EstimatedLines(n, rect_w, fontsize) * fontsize * LineSpacingMult100
        <= rect_h * 100

\* lines 117-128: the early returns, the trimming, the start of the loop
EnterFit(text, rect_w, rect_h, initial_fontsize, min_fontsize) ==
    LET f == [NoFit EXCEPT !.text = Strip(text), !.rect_w = rect_w,
                           !.rect_h = rect_h,
                           !.initial_fontsize = initial_fontsize,
                           !.min_fontsize = min_fontsize,
                           !.fontsize = initial_fontsize]
    IN  IF text = NoText \/ Strip(text) = NoText
        THEN [f EXCEPT !.pc = "ret"]
        ELSE [f EXCEPT !.pc = "loop"]

\* lines 130-145: the while test and, when it holds, one execution of the
\* loop body up to the call of page.insert_textbox
FitIterNoFloor(f) ==
    IF HeightFits(Len(f.text), f.rect_w, f.rect_h, f.fontsize) \/ f.fontsize = 1
    THEN [f EXCEPT !.pc = "insert", !.iters = @ + 1,
                   !.inserts = Append(@, f.fontsize)]
    ELSE [f EXCEPT !.fontsize = @ - 1, !.iters = @ + 1]
FitIter(f) ==
    IF f.fontsize >= f.min_fontsize
    THEN IF HeightFits(Len(f.text), f.rect_w, f.rect_h, f.fontsize)
            \/ f.fontsize = f.min_fontsize
         THEN [f EXCEPT !.pc = "insert", !.iters = @ + 1,
                        !.inserts = Append(@, f.fontsize)]
         ELSE [f EXCEPT !.fontsize = @ - 1, !.iters = @ + 1]
    ELSE [f EXCEPT !.pc = "insert_last", !.inserts = Append(@, f.min_fontsize)]

\* page.insert_textbox returned: lines 141 and 145 return
OnInserted(f) == [f EXCEPT !.pc = "ret"]

\* page.insert_textbox raised: line 139 catches the exception of line 138
\* and line 140 inserts at min_fontsize; nothing catches an exception of
\* line 140 or of line 145
OnInsertRejected(f) ==
    IF f.pc = "insert"
    THEN [f EXCEPT !.pc = "insert_retry", !.inserts = Append(@, f.min_fontsize)]
    ELSE [f EXCEPT !.pc = "raised"]

(* ------------------------------------------------------------------ *)
(* Documents: pages of blocks, as extract_blocks_from_pdf returns them  *)
(* ------------------------------------------------------------------ *)
\* numbers of blocks per page: one or two pages, MaxBlocks blocks at most
Shapes ==
    { <<n>> : n \in 0..MaxBlocks } \cup
    { s \in (0..MaxBlocks) \X (0..MaxBlocks) : s[1] + s[2] <= MaxBlocks }

\* block b of page p (both counted from 1); o rotates the texts
BlockAt(p, b, o) ==
    [x0 |-> 0, y0 |-> 25 * (b - 1), x1 |-> 50 * p, y1 |-> 25 * (b - 1) + 20,
     text |-> SrcTexts[((p + b + o) % Len(SrcTexts)) + 1]]

Document(shape, o) ==
    [p \in 1..Len(shape) |-> [b \in 1..shape[p] |-> BlockAt(p, b, o)]]

Documents == { Document(shape, 0) : shape \in Shapes }

(* ------------------------------------------------------------------ *)
(* The input PDF as fitz shows it, and the replace_blocks_in_pdf frame  *)
(* ------------------------------------------------------------------ *)
\* no document
NoRawDoc == [openable |-> FALSE, pages |-> <<>>]

\* replace_blocks_in_pdf (lines 151-170) as a frame
\*   pc: "none" not called, "loop" in the loops of lines 155-167,
\*       "saved" returned after doc.save, "raised" an exception left it
\*   npages: pages of the opened document; tpages: argument translated_pages
\*   page, block: place of the block in work (counted from 1)
\*   ops: the calls made on the pages, in order: page.draw_rect ("paint")
\*        and the page.insert_textbox calls that returned ("insert")
NoRep ==
    [pc |-> "none", npages |-> 0, tpages |-> <<>>, page |-> 0, block |-> 0,
     ops |-> <<>>]

\* the next block at or after block b of page p, in the order of the loops
\* of lines 155-158: a page at or beyond len(translated_pages) is skipped
\* (line 157); <<0, 0>> when the pages of the document are exhausted
RECURSIVE NextPosFrom(_, _, _, _)
NextPosFrom(tpages, npages, p, b) ==
    IF p > npages THEN <<0, 0>>
    ELSE IF p > Len(tpages) THEN NextPosFrom(tpages, npages, p + 1, 1)
    ELSE IF b > Len(tpages[p]) THEN NextPosFrom(tpages, npages, p + 1, 1)
    ELSE <<p, b>>

\* line 153: the document is open, the loop of line 155 starts
EnterReplace(npages, tpages) ==
    [NoRep EXCEPT !.pc = "loop", !.npages = npages, !.tpages = tpages,
                  !.page = 1, !.block = 0]

\* lines 163-165: page.draw_rect over the box widened by the inset; every
\* rectangle in ops is in tenths of a page unit
PaintOp(p, b, blk) ==
    [op |-> "paint", page |-> p, block |-> b,
     x0 |-> 10 * blk.x0 - Inset10, y0 |-> 10 * blk.y0 - Inset10,
     x1 |-> 10 * blk.x1 + Inset10, y1 |-> 10 * blk.y1 + Inset10,
     text |-> NoText, fontsize |-> 0]

\* lines 138, 140, 145: page.insert_textbox(rect, text, fontsize=...) with
\* the rect of line 159
InsertOp(p, b, blk, text, fontsize) ==
    [op |-> "insert", page |-> p, block |-> b,
     x0 |-> 10 * blk.x0, y0 |-> 10 * blk.y0,
     x1 |-> 10 * blk.x1, y1 |-> 10 * blk.y1,
     text |-> text, fontsize |-> fontsize]

\* lines 155-165 and 169-170: go to the next block and paint over it, or,
\* with no block left, save and close the document
RepAdvance(r) ==
    LET pos == NextPosFrom(r.tpages, r.npages, r.page, r.block + 1)
    IN  IF pos = <<0, 0>>
        THEN [r EXCEPT !.pc = "saved"]
        ELSE [r EXCEPT !.page = pos[1], !.block = pos[2],
                       !.ops = Append(@, PaintOp(pos[1], pos[2],
                                                 r.tpages[pos[1]][pos[2]]))]

\* line 167: insert_textbox_fitted(page, rect, new_text,
\* initial_fontsize=10, min_fontsize=6) for the block in work
RepFitCall(r) ==
    LET blk == r.tpages[r.page][r.block]
    IN  EnterFit(blk.text, blk.x1 - blk.x0, blk.y1 - blk.y0,
                 DefaultInitialFontsize, DefaultMinFontsize)

\* page.insert_textbox returned for the block in work
RepInserted(r, f) ==
    [r EXCEPT !.ops = Append(@, InsertOp(r.page, r.block,
                                         r.tpages[r.page][r.block], f.text,
                                         f.inserts[Len(f.inserts)]))]

(* ------------------------------------------------------------------ *)
(* extract_blocks_from_pdf (lines 12-33)                                *)
(* A raw block is what page.get_text("blocks") gives: nfields is the   *)
(* length of the tuple, the other fields are its first five entries.   *)
(* ------------------------------------------------------------------ *)
\* lines 22-25: the block has five fields and a text that is not blank
AcceptedUntrimmed(rb) ==
    /\ rb.nfields >= MinFields
    /\ rb.text # NoText
Accepted(rb) ==
    /\ rb.nfields >= MinFields
    /\ rb.text # NoText
    /\ Strip(rb.text) # NoText

\* lines 26-29
ToBlock(rb) ==
    [x0 |-> rb.x0, y0 |-> rb.y0, x1 |-> rb.x1, y1 |-> rb.y1,
     text |-> Strip(rb.text)]

\* lines 19-30 for one page
ExtractPage(raw_page) ==
    LET acc == SelectSeq(raw_page, Accepted)
    IN  [i \in 1..Len(acc) |-> ToBlock(acc[i])]

\* lines 15-33
ExtractBlocks(raw_pages) ==
    [p \in 1..Len(raw_pages) |-> ExtractPage(raw_pages[p])]

\* the kinds of raw block: a text, a text with blanks around it, a blank
\* text, a tuple of four fields, an empty text
RawKinds ==
    << [nfields |-> 7, text |-> <<"a">>],
       [nfields |-> 7, text |-> <<" ", "a", " ", "b", " ">>],
       [nfields |-> 7, text |-> <<"a">>],
       [nfields |-> 7, text |-> <<" ", " ">>],
       [nfields |-> 4, text |-> <<"a">>],
       [nfields |-> 5, text |-> NoText] >>

\* raw block b of page p; o rotates the kinds
RawBlockAt(p, b, o) ==
    LET k == RawKinds[((p + b + o) % Len(RawKinds)) + 1]
    IN  [nfields |-> k.nfields, x0 |-> 0, y0 |-> 25 * (b - 1), x1 |-> 50 * p,
         y1 |-> 25 * (b - 1) + 20, text |-> k.text]

RawDocument(shape, o) ==
    [openable |-> TRUE,
     pages |-> [p \in 1..Len(shape) |-> [b \in 1..shape[p] |-> RawBlockAt(p, b, o)]]]

\* the documents __main__ is run on; NoRawDoc is a file fitz cannot open
RawDocs ==
    { RawDocument(shape, o) : shape \in Shapes, o \in {0, 2, 4} } \cup { NoRawDoc }

VARIABLES
    pages_blocks,         \* argument of translate_blocks_deep
    workers,              \* argument: max_workers of the pool
    pause_between_calls,  \* argument (milliseconds)
    backend,              \* "flaky": a call may return or raise; "down": every call raises;
                          \* "pure": every call returns the one answer for its text;
                          \* "hang": no call ever returns
    pc,                   \* position of the calling thread in translate_blocks_deep
    tasks,                \* line 68: sequence of <<p_idx, b_idx, text>>
    submitted,            \* number of tasks handed to exc.submit (line 84)
    queue,                \* the executor's work queue (task numbers)
    running,              \* tasks a pool thread is running
    fut,                  \* state of each task's future
    frame,                \* translate_with_retry frame of each running task
    fresult,              \* what each finished future holds
    yielded,              \* futures as_completed has handed to the loop
    translated_map,       \* line 73
    completed,            \* line 85
    translated_pages,     \* line 93, the return value
    twr,                  \* a translate_with_retry frame exercised alone
    fit,                  \* the insert_textbox_fitted frame
    raw_doc,              \* the input PDF: whether it opens, and its raw blocks
    mpc,                  \* position of __main__ ("none": not running)
    rep,                  \* the replace_blocks_in_pdf frame
    deadline              \* the time the caller allows translate_blocks_deep:
                          \* "none", "running" or "exceeded"

pipeVars ==
    <<pages_blocks, workers, pause_between_calls, backend, pc, tasks, submitted,
      queue, running, fut, frame, fresult, yielded, translated_map, completed,
      translated_pages>>

\* what surrounds the pipeline: the document, __main__ and
\* replace_blocks_in_pdf
envVars == <<raw_doc, mpc, rep, deadline>>

vars == <<pipeVars, twr, fit, envVars>>

TaskIds == 1..Len(tasks)
NoResult == [exc |-> FALSE, text |-> NoText]
EmptyMap == [k \in {} |-> NoText]

\* the pipeline variables before translate_blocks_deep has built its tasks;
\* at "start" it is called with `doc`, at "idle" it is not called yet
PipeAt(doc, w, pause, mode, at) ==
    /\ pages_blocks = doc
    /\ workers = w
    /\ pause_between_calls = pause
    /\ backend = mode
    /\ pc = at
    /\ tasks = <<>>
    /\ submitted = 0
    /\ queue = <<>>
    /\ running = {}
    /\ fut = <<>>
    /\ frame = <<>>
    /\ fresult = <<>>
    /\ yielded = {}
    /\ translated_map = EmptyMap
    /\ completed = 0
    /\ translated_pages = <<>>

PipeStart(doc, w, pause, mode) == PipeAt(doc, w, pause, mode, "start")

\* nothing but the pipeline is running
EnvIdle ==
    /\ raw_doc = NoRawDoc
    /\ mpc = "none"
    /\ rep = NoRep
    /\ deadline = "none"

(* ------------------------------------------------------------------ *)
(* translate_blocks_deep (lines 66-107)                                 *)
(* ------------------------------------------------------------------ *)
\* lines 68-71: one task per block, pages in order, blocks in order
RECURSIVE FlattenFrom(_, _)
FlattenFrom(doc, p) ==
    IF p > Len(doc) THEN <<>>
    ELSE [b \in 1..Len(doc[p]) |-> <<p - 1, b - 1, doc[p][b].text>>]
         \o FlattenFrom(doc, p + 1)

Flatten(doc) == FlattenFrom(doc, 1)

Key(t) == <<tasks[t][1], tasks[t][2]>>

\* lines 68-73 and 82-83: build the tasks, create the pool
BuildTasks ==
    /\ pc = "start"
    /\ pc' = "submit"
    /\ tasks' = Flatten(pages_blocks)
    /\ fut' = [t \in 1..Len(Flatten(pages_blocks)) |-> "NEW"]
    /\ frame' = [t \in 1..Len(Flatten(pages_blocks)) |-> NoFrame]
    /\ fresult' = [t \in 1..Len(Flatten(pages_blocks)) |-> NoResult]
    /\ UNCHANGED <<pages_blocks, workers, pause_between_calls, backend, submitted,
                   queue, running, yielded, translated_map, completed,
                   translated_pages, twr, fit, envVars>>

\* line 84: exc.submit(worker, t) for the next task
Submit ==
    /\ pc = "submit"
    /\ submitted < Len(tasks)
    /\ submitted' = submitted + 1
    /\ fut' = [fut EXCEPT ![submitted + 1] = "PENDING"]
    /\ queue' = Append(queue, submitted + 1)
    /\ UNCHANGED <<pages_blocks, workers, pause_between_calls, backend, pc, tasks,
                   running, frame, fresult, yielded, translated_map, completed,
                   translated_pages, twr, fit, envVars>>

\* lines 85-86: every task is submitted; enter the as_completed loop
StartCollect ==
    /\ pc = "submit"
    /\ submitted = Len(tasks)
    /\ pc' = "collect"
    /\ completed' = 0
    /\ UNCHANGED <<pages_blocks, workers, pause_between_calls, backend, tasks,
                   submitted, queue, running, fut, frame, fresult, yielded,
                   translated_map, translated_pages, twr, fit, envVars>>

\* ThreadPoolExecutor(max_workers=workers): a pool thread is free to take
\* the next work item
ThreadFreeUnbounded == TRUE
ThreadFree == Cardinality(running) < workers

\* lines 76-79: what the worker does on entry; with no pause it is in
\* translate_with_retry at once
WorkerEntry(t) ==
    IF pause_between_calls # 0 THEN NoFrame
    ELSE EnterTWR(tasks[t][3], DefaultRetries, DefaultSleepBetween)

\* The pool thread running task t, among the running tasks `run`, has
\* brought its translate_with_retry frame to f. A frame that is over takes
\* the thread through line 80 without waiting: worker returns
\* (p_idx, b_idx, translated), or the exception leaves it; the future is
\* finished and the pool thread is free again.
WorkerStep(t, f, run) ==
    IF f.pc \in {"ret", "raised"}
    THEN /\ fresult' = [fresult EXCEPT ![t] =
                           [exc |-> f.pc = "raised", text |-> f.ret]]
         /\ fut' = [fut EXCEPT ![t] = "FINISHED"]
         /\ frame' = [frame EXCEPT ![t] = NoFrame]
         /\ running' = run \ {t}
    ELSE /\ fresult' = fresult
         /\ fut' = [fut EXCEPT ![t] = "RUNNING"]
         /\ frame' = [frame EXCEPT ![t] = f]
         /\ running' = run

\* a pool thread takes the head of the work queue and runs worker(task)
Take ==
    /\ queue # <<>>
    /\ ThreadFree
    /\ queue' = Tail(queue)
    /\ WorkerStep(Head(queue), WorkerEntry(Head(queue)), running \cup {Head(queue)})
    /\ UNCHANGED <<pages_blocks, workers, pause_between_calls, backend, pc, tasks,
                   submitted, yielded, translated_map, completed,
                   translated_pages, twr, fit, envVars>>

\* line 78 returns from time.sleep(pause_between_calls); line 79 calls
\* translate_with_retry(text, src=src, dest=dest)
PauseOver(t) ==
    /\ t \in running
    /\ pause_between_calls # 0
    /\ frame[t].pc = "none"
    /\ WorkerStep(t, EnterTWR(tasks[t][3], DefaultRetries, DefaultSleepBetween),
                  running)
    /\ UNCHANGED <<pages_blocks, workers, pause_between_calls, backend, pc, tasks,
                   submitted, queue, yielded, translated_map, completed,
                   translated_pages, twr, fit, envVars>>

\* a backend whose answer depends only on the text: one text of
\* BackendTexts for a text of one character, the other for a longer one
PureAnswer(text) == OkOutcome(IF Len(text) = 1 THEN <<"x">> ELSE <<" ">>)

\* what translator.translate(text) may return: anything when the backend
\* is "flaky", its one answer when it is "pure", nothing otherwise
Answers(mode, text) ==
    IF mode = "pure" THEN { PureAnswer(text) }
    ELSE IF mode = "flaky" THEN ReturnOutcomes
    ELSE {}

\* line 48: the backend call of task t returns
BackendReturns(t) ==
    /\ t \in running
    /\ frame[t].pc = "call"
    /\ \E r \in Answers(backend, frame[t].text) :
          WorkerStep(t, OnReturn(frame[t], r), running)
    /\ UNCHANGED <<pages_blocks, workers, pause_between_calls, backend, pc, tasks,
                   submitted, queue, yielded, translated_map, completed,
                   translated_pages, twr, fit, envVars>>

\* line 48: the backend call of task t raises
BackendRaises(t) ==
    /\ t \in running
    /\ backend \in {"flaky", "down"}
    /\ frame[t].pc = "call"
    /\ WorkerStep(t, OnException(frame[t]), running)
    /\ UNCHANGED <<pages_blocks, workers, pause_between_calls, backend, pc, tasks,
                   submitted, queue, yielded, translated_map, completed,
                   translated_pages, twr, fit, envVars>>

\* line 59: the backoff sleep of task t is over
Wake(t) ==
    /\ t \in running
    /\ frame[t].pc = "sleep"
    /\ WorkerStep(t, AfterSleep(frame[t]), running)
    /\ UNCHANGED <<pages_blocks, workers, pause_between_calls, backend, pc, tasks,
                   submitted, queue, yielded, translated_map, completed,
                   translated_pages, twr, fit, envVars>>

\* dict assignment translated_map[key] = v
MapPutReplaces(m, key, v) ==
    [k \in {key} |-> v]
MapPut(m, key, v) ==
    [k \in DOMAIN m \cup {key} |-> IF k = key THEN v ELSE m[k]]

\* lines 86-89: as_completed yields a finished future not yet yielded;
\* fut.result() re-raises the worker's exception, which leaves the function
Collect(t) ==
    /\ pc = "collect"
    /\ t \in TaskIds \ yielded
    /\ fut[t] = "FINISHED"
    /\ yielded' = yielded \cup {t}
    /\ IF fresult[t].exc
       THEN /\ pc' = "raised"
            /\ UNCHANGED <<translated_map, completed>>
       ELSE /\ pc' = pc
            /\ translated_map' = MapPut(translated_map, Key(t), fresult[t].text)
            /\ completed' = completed + 1
    /\ UNCHANGED <<pages_blocks, workers, pause_between_calls, backend, tasks,
                   submitted, queue, running, fut, frame, fresult,
                   translated_pages, twr, fit, envVars>>

\* as_completed(futures) is exhausted once it has yielded every future
AllYieldedEarly == yielded # {} \/ TaskIds = {}
AllYielded == yielded = TaskIds

\* line 91 -> 93: the loop ends and the `with` block exits, which waits
\* for the pool threads (shutdown(wait=True))
ExitPool ==
    /\ pc = "collect"
    /\ AllYielded
    /\ queue = <<>> /\ running = {}
    /\ pc' = "reassemble"
    /\ UNCHANGED <<pages_blocks, workers, pause_between_calls, backend, tasks,
                   submitted, queue, running, fut, frame, fresult, yielded,
                   translated_map, completed, translated_pages, twr, fit, envVars>>

\* line 97: translated_map.get((p_idx, b_idx), block["text"])
MapGet(m, key, default) == IF key \in DOMAIN m THEN m[key] ELSE default

\* lines 96-104: the output block for block b of page p (counted from 1)
TranslatedBlockAtOrigin(m, doc, p, b) ==
    [doc[p][b] EXCEPT !.text = MapGet(m, <<p - 1, b - 1>>, doc[p][b].text),
                      !.x0 = 0, !.y0 = 0]
TranslatedBlock(m, doc, p, b) ==
    [doc[p][b] EXCEPT !.text = MapGet(m, <<p - 1, b - 1>>, doc[p][b].text)]

\* lines 93-107
Reassemble ==
    /\ pc = "reassemble"
    /\ pc' = "returned"
    /\ translated_pages' =
          [p \in 1..Len(pages_blocks) |->
              [b \in 1..Len(pages_blocks[p]) |->
                  TranslatedBlock(translated_map, pages_blocks, p, b)]]
    /\ UNCHANGED <<pages_blocks, workers, pause_between_calls, backend, tasks,
                   submitted, queue, running, fut, frame, fresult, yielded,
                   translated_map, completed, twr, fit, envVars>>

Init ==
    /\ \E doc \in Documents, w \in 1..MaxWorkers, pause \in {0, DefaultPause},
          mode \in {"flaky", "down", "pure"} : PipeStart(doc, w, pause, mode)
    /\ twr = NoFrame
    /\ fit = NoFit
    /\ EnvIdle

Next ==
    \/ BuildTasks
    \/ Submit
    \/ StartCollect
    \/ Take
    \/ \E t \in TaskIds : PauseOver(t)
    \/ \E t \in TaskIds : BackendReturns(t)
    \/ \E t \in TaskIds : BackendRaises(t)
    \/ \E t \in TaskIds : Wake(t)
    \/ \E t \in TaskIds : Collect(t)
    \/ ExitPool
    \/ Reassemble

Spec == Init /\ [][Next]_vars

\* translate_blocks_deep called with the pause __main__ passes (line 187)
InitLive ==
    /\ \E doc \in Documents, w \in 1..MaxWorkers,
          mode \in {"flaky", "down", "pure"} :
          PipeStart(doc, w, DefaultPause, mode)
    /\ twr = NoFrame
    /\ fit = NoFit
    /\ EnvIdle

\* the pool threads keep running, a sleep ends, a backend call that is to
\* return or raise does so, and the calling thread goes on whenever it can
SpecLive == InitLive /\ [][Next]_vars /\ WF_vars(Next)

(* ------------------------------------------------------------------ *)
(* translate_blocks_deep under a deadline of its caller                 *)
(* ------------------------------------------------------------------ *)
InitDeadline ==
    /\ \E doc \in Documents, mode \in {"flaky", "hang"} :
          PipeStart(doc, MaxWorkers, DefaultPause, mode)
    /\ twr = NoFrame
    /\ fit = NoFit
    /\ raw_doc = NoRawDoc
    /\ mpc = "none"
    /\ rep = NoRep
    /\ deadline = "running"

\* the time allowed runs out while translate_blocks_deep is running:
\* nothing in lines 66-107 reads a clock, as_completed (line 86) is called
\* without a timeout and translate_with_retry has none either, so no
\* variable of the function changes
DeadlineExpires ==
    /\ deadline = "running"
    /\ pc \notin {"returned", "raised"}
    /\ deadline' = "exceeded"
    /\ UNCHANGED <<pipeVars, twr, fit, raw_doc, mpc, rep>>

NextDeadline ==
    \/ Next
    \/ DeadlineExpires

SpecDeadline == InitDeadline /\ [][NextDeadline]_vars /\ WF_vars(NextDeadline)

(* ------------------------------------------------------------------ *)
(* translate_with_retry exercised alone                                 *)
(* ------------------------------------------------------------------ *)
InitRetry ==
    /\ PipeStart(<<>>, 1, 0, "down")
    /\ twr = NoFrame
    /\ fit = NoFit
    /\ EnvIdle

RetryCall ==
    /\ twr.pc = "none"
    /\ \E text \in RetryTexts, retries \in 0..MaxRetries, sb \in SleepChoices :
          twr' = EnterTWR(text, retries, sb)
    /\ UNCHANGED <<pipeVars, fit, envVars>>

RetryBackendReturns ==
    /\ twr.pc = "call"
    /\ \E r \in ReturnOutcomes : twr' = OnReturn(twr, r)
    /\ UNCHANGED <<pipeVars, fit, envVars>>

RetryBackendRaises ==
    /\ twr.pc = "call"
    /\ twr' = OnException(twr)
    /\ UNCHANGED <<pipeVars, fit, envVars>>

RetryWake ==
    /\ twr.pc = "sleep"
    /\ twr' = AfterSleep(twr)
    /\ UNCHANGED <<pipeVars, fit, envVars>>

NextRetry == RetryCall \/ RetryBackendReturns \/ RetryBackendRaises \/ RetryWake

SpecRetry == InitRetry /\ [][NextRetry]_vars

(* ------------------------------------------------------------------ *)
(* insert_textbox_fitted exercised alone                                *)
(* ------------------------------------------------------------------ *)
Rep(c, n) == [i \in 1..n |-> c]

FitTexts ==
    { NoText, <<" ">>, <<" ", "a", " ">>, Rep("a", 5), Rep("a", 45),
      Rep("a", 111), Rep("a", 500) }

FitWidths == { 50, 100 }
FitHeights == { 15, 20, 40, 55 }
FitMinSizes == { DefaultMinFontsize, 8 }

InitFit ==
    /\ PipeStart(<<>>, 1, 0, "down")
    /\ twr = NoFrame
    /\ fit = NoFit
    /\ EnvIdle

FitCall ==
    /\ fit.pc = "none"
    /\ \E text \in FitTexts, w \in FitWidths, h \in FitHeights,
          m \in FitMinSizes :
          \E i \in m..MaxFontsize : fit' = EnterFit(text, w, h, i, m)
    /\ UNCHANGED <<pipeVars, twr, envVars>>

FitLoop ==
    /\ fit.pc = "loop"
    /\ fit' = FitIter(fit)
    /\ UNCHANGED <<pipeVars, twr, envVars>>

FitEngineAccepts ==
    /\ fit.pc \in {"insert", "insert_retry", "insert_last"}
    /\ fit' = OnInserted(fit)
    /\ UNCHANGED <<pipeVars, twr, envVars>>

FitEngineRejects ==
    /\ fit.pc \in {"insert", "insert_retry", "insert_last"}
    /\ fit' = OnInsertRejected(fit)
    /\ UNCHANGED <<pipeVars, twr, envVars>>

NextFit == FitCall \/ FitLoop \/ FitEngineAccepts \/ FitEngineRejects

SpecFit == InitFit /\ [][NextFit]_vars

(* ------------------------------------------------------------------ *)
(* replace_blocks_in_pdf (lines 151-170): its steps                     *)
(* ------------------------------------------------------------------ *)
\* the loops of lines 155-167 reach the next block, paint it and call
\* insert_textbox_fitted; or the document is saved and the function
\* returns, which ends __main__ (line 192)
ReplaceStep ==
    /\ rep.pc = "loop"
    /\ fit.pc \in {"none", "ret"}
    /\ rep' = RepAdvance(rep)
    /\ fit' = IF RepAdvance(rep).pc = "loop" THEN RepFitCall(RepAdvance(rep))
              ELSE NoFit
    /\ mpc' = IF mpc = "replace" /\ RepAdvance(rep).pc = "saved" THEN "done"
              ELSE mpc
    /\ UNCHANGED <<pipeVars, twr, raw_doc, deadline>>

\* page.insert_textbox returns
ReplaceEngineAccepts ==
    /\ rep.pc = "loop"
    /\ fit.pc \in {"insert", "insert_retry", "insert_last"}
    /\ fit' = OnInserted(fit)
    /\ rep' = RepInserted(rep, fit)
    /\ UNCHANGED <<pipeVars, twr, raw_doc, mpc, deadline>>

\* page.insert_textbox raises; an exception that leaves
\* insert_textbox_fitted leaves replace_blocks_in_pdf (before doc.save)
\* and __main__
ReplaceEngineRejects ==
    /\ rep.pc = "loop"
    /\ fit.pc \in {"insert", "insert_retry", "insert_last"}
    /\ fit' = OnInsertRejected(fit)
    /\ rep' = IF OnInsertRejected(fit).pc = "raised"
              THEN [rep EXCEPT !.pc = "raised"] ELSE rep
    /\ mpc' = IF OnInsertRejected(fit).pc = "raised" /\ mpc = "replace"
              THEN "raised" ELSE mpc
    /\ UNCHANGED <<pipeVars, twr, raw_doc, deadline>>

(* ------------------------------------------------------------------ *)
(* __main__ (lines 176-192): extract, translate, replace                *)
(* ------------------------------------------------------------------ *)
InitMain ==
    /\ \E rd \in RawDocs : raw_doc = rd
    /\ mpc = "extract"
    /\ rep = NoRep
    /\ deadline = "none"
    /\ PipeAt(<<>>, MainWorkers, DefaultPause, "flaky", "idle")
    /\ twr = NoFrame
    /\ fit = NoFit

\* line 181: extract_blocks_from_pdf; fitz.open (line 14) raises for a file
\* it cannot open and nothing catches it; otherwise line 186 calls
\* translate_blocks_deep with the blocks
MainExtractSwallowsError ==
    /\ mpc = "extract"
    /\ mpc' = "translate"
    /\ pages_blocks' = ExtractBlocks(raw_doc.pages)
    /\ pc' = "start"
    /\ UNCHANGED <<workers, pause_between_calls, backend, tasks, submitted,
                   queue, running, fut, frame, fresult, yielded, translated_map,
                   completed, translated_pages, twr, fit, raw_doc, rep, deadline>>
MainExtract ==
    /\ mpc = "extract"
    /\ IF raw_doc.openable
       THEN /\ mpc' = "translate"
            /\ pages_blocks' = ExtractBlocks(raw_doc.pages)
            /\ pc' = "start"
       ELSE /\ mpc' = "raised"
            /\ UNCHANGED <<pages_blocks, pc>>
    /\ UNCHANGED <<workers, pause_between_calls, backend, tasks, submitted,
                   queue, running, fut, frame, fresult, yielded, translated_map,
                   completed, translated_pages, twr, fit, raw_doc, rep, deadline>>

\* line 190: translate_blocks_deep has returned; replace_blocks_in_pdf
\* opens the same file (line 153)
MainReplace ==
    /\ mpc = "translate"
    /\ pc = "returned"
    /\ mpc' = "replace"
    /\ rep' = EnterReplace(Len(raw_doc.pages), translated_pages)
    /\ UNCHANGED <<pipeVars, twr, fit, raw_doc, deadline>>

NextMain ==
    \/ MainExtract
    \/ Next
    \/ MainReplace
    \/ ReplaceStep
    \/ FitLoop
    \/ ReplaceEngineAccepts
    \/ ReplaceEngineRejects

SpecMain == InitMain /\ [][NextMain]_vars

(* ------------------------------------------------------------------ *)
(* replace_blocks_in_pdf exercised alone                                *)
(* ------------------------------------------------------------------ *)
\* texts a block of translated_pages can hold: what the backend returned,
\* or the source text
ComposeTexts == << <<"x">>, <<" ">>, <<"a", " ", "b">> >>

TranslatedDocument(shape, o) ==
    [p \in 1..Len(shape) |->
        [b \in 1..shape[p] |->
            [BlockAt(p, b, 0) EXCEPT
                !.text = ComposeTexts[((p + b + o) % Len(ComposeTexts)) + 1]]]]

TranslatedDocs ==
    { TranslatedDocument(shape, o) : shape \in Shapes, o \in 0..2 } \cup { <<>> }

InitCompose ==
    /\ PipeStart(<<>>, 1, 0, "down")
    /\ twr = NoFrame
    /\ fit = NoFit
    /\ EnvIdle

\* replace_blocks_in_pdf(input_pdf, translated_pages, output_pdf) on a
\* document of npages pages
ReplaceCall ==
    /\ rep.pc = "none"
    /\ mpc = "none"
    /\ \E npages \in 0..MaxPages, tpages \in TranslatedDocs :
          rep' = EnterReplace(npages, tpages)
    /\ UNCHANGED <<pipeVars, twr, fit, raw_doc, mpc, deadline>>

NextCompose ==
    \/ ReplaceCall
    \/ ReplaceStep
    \/ FitLoop
    \/ ReplaceEngineAccepts
    \/ ReplaceEngineRejects

SpecCompose == InitCompose /\ [][NextCompose]_vars

(* ------------------------------------------------------------------ *)
(* Properties of translate_blocks_deep (checked under Spec)             *)
(* ------------------------------------------------------------------ *)
\* the identities (page_index, block_index) of the input blocks
Identities ==
    UNION { { <<p - 1, b - 1>> : b \in 1..Len(pages_blocks[p]) } :
            p \in 1..Len(pages_blocks) }

SameShape ==
    /\ Len(translated_pages) = Len(pages_blocks)
    /\ \A p \in 1..Len(pages_blocks) :
          Len(translated_pages[p]) = Len(pages_blocks[p])

\* C1. Identity preservation: when translate_blocks_deep has returned, the
\* result map holds exactly the identities of the input blocks, one entry
\* was stored per block, the returned pages have one block per input block,
\* and no result text is empty where the source text was not; whatever the
\* backend did and in whatever order the tasks completed.
IdentityPreservation ==
    pc = "returned" =>
        /\ DOMAIN translated_map = Identities
        /\ completed = Cardinality(Identities)
        /\ SameShape
        /\ \A p \in 1..Len(pages_blocks) : \A b \in 1..Len(pages_blocks[p]) :
              pages_blocks[p][b].text # NoText =>
                  /\ translated_map[<<p - 1, b - 1>>] # NoText
                  /\ translated_pages[p][b].text # NoText

IdentityPreservationWitness ==
    /\ pc = "returned"
    /\ backend = "flaky"
    /\ Len(pages_blocks) = 2
    /\ Len(pages_blocks[1]) = 2 /\ Len(pages_blocks[2]) = 1
    /\ translated_pages[1][1].text = pages_blocks[1][1].text
    /\ translated_pages[1][2].text = <<"x">>
    /\ translated_pages[2][1].text = <<" ">>

\* C2. Fallback correctness: with a backend whose every call raises, the
\* text returned for every block is that block's source text.
FallbackCorrectness ==
    (backend = "down" /\ pc = "returned") =>
        /\ SameShape
        /\ \A p \in 1..Len(pages_blocks) : \A b \in 1..Len(pages_blocks[p]) :
              translated_pages[p][b].text = pages_blocks[p][b].text

FallbackCorrectnessWitness ==
    /\ backend = "down"
    /\ pc = "returned"
    /\ Len(tasks) = 3
    /\ translated_pages[1][1].text = pages_blocks[1][1].text

\* the number of backend calls in flight
InFlight == Cardinality({ t \in TaskIds : frame[t].pc = "call" })

\* C7. Concurrency bound: at no time are more than `workers` backend calls
\* in flight.
ConcurrencyBound == InFlight <= workers

ConcurrencyBoundWitness ==
    /\ workers = 2
    /\ InFlight = 2
    /\ queue # <<>>

\* C8. The pipeline waits for all tasks: once the pool block is left (the
\* reassembly begins, or the function has returned), every task was
\* submitted, every future is finished and was collected into the result
\* map, and no task is queued or running.
WaitsForAllTasks ==
    pc \in {"reassemble", "returned"} =>
        /\ submitted = Len(tasks)
        /\ queue = <<>>
        /\ running = {}
        /\ \A t \in TaskIds :
              /\ fut[t] = "FINISHED"
              /\ frame[t].pc = "none"
              /\ t \in yielded
              /\ Key(t) \in DOMAIN translated_map

WaitsForAllTasksWitness ==
    /\ pc = "reassemble"
    /\ Len(tasks) = 3
    /\ workers = 1

\* C9. No translation failure is surfaced: no exception leaves
\* translate_with_retry, so no future holds an exception, the calling
\* thread never raises, and every finished task holds either a text the
\* backend returned or its source text.
NoFailureSurfaced ==
    /\ pc # "raised"
    /\ \A t \in TaskIds :
          /\ frame[t].pc # "raised"
          /\ ~fresult[t].exc
          /\ fut[t] = "FINISHED" =>
                fresult[t].text \in BackendTexts \cup {tasks[t][3]}

NoFailureSurfacedWitness ==
    /\ pc = "returned"
    /\ backend = "flaky"
    /\ Len(tasks) = 2
    /\ fresult[1].text = tasks[1][3]
    /\ fresult[2].text = <<"x">>

(* ------------------------------------------------------------------ *)
(* Properties of translate_with_retry (checked under SpecRetry)         *)
(* ------------------------------------------------------------------ *)
AllRaised(outcomes) == \A i \in 1..Len(outcomes) : outcomes[i].kind = "raise"

\* a call that returned a non-empty text
Translated(r) == r.kind = "ok" /\ r.val # NoText

\* a call that returned None or the empty string
EmptyResult(r) == r.kind = "none" \/ (r.kind = "ok" /\ r.val = NoText)

\* the frame returned after at least one call, every one of which raised
GaveUp == twr.pc = "ret" /\ twr.outcomes # <<>> /\ AllRaised(twr.outcomes)

\* C3 as stated: with a backend failing on every call, the first call is
\* followed by max_retries retries, max_retries + 1 calls in all, before
\* the task resolves to the source text.
RetriesAfterFirstCall ==
    GaveUp => (twr.calls = twr.retries + 1 /\ twr.ret = twr.text)

\* C3, amended: with a backend failing on every call, exactly `retries`
\* calls are made in all (the first call and retries - 1 retries, each
\* after a backoff wait), never more at any time, and the task then
\* resolves to the source text.
RetriesCountAllCalls ==
    /\ twr.calls <= twr.retries
    /\ GaveUp =>
          /\ twr.calls = twr.retries
          /\ Len(twr.outcomes) = twr.retries
          /\ Len(twr.sleeps) = twr.retries - 1
          /\ twr.ret = twr.text

RetriesCountAllCallsWitness ==
    /\ GaveUp
    /\ twr.retries = DefaultRetries
    /\ twr.calls = 3
    /\ twr.ret = <<"a", " ", "b">>

\* C4. Retry bound: a call is made only after failed calls; when k calls
\* raised and the next returned a text, k < retries, k + 1 calls were made
\* and the task resolved to that text; and a task does not give up before
\* `retries` calls have raised.
RetryBound ==
    /\ \A i \in 1..(Len(twr.outcomes) - 1) : twr.outcomes[i].kind = "raise"
    /\ (twr.pc = "ret" /\ twr.outcomes # <<>>
           /\ Translated(twr.outcomes[Len(twr.outcomes)])) =>
          /\ Len(twr.outcomes) - 1 < twr.retries
          /\ twr.calls = Len(twr.outcomes)
          /\ twr.ret = twr.outcomes[Len(twr.outcomes)].val
    /\ GaveUp => Len(twr.outcomes) >= twr.retries

RetryBoundWitness ==
    /\ twr.pc = "ret"
    /\ twr.retries = 3
    /\ twr.calls = 3
    /\ Len(twr.outcomes) = 3
    /\ twr.outcomes[2].kind = "raise"
    /\ twr.outcomes[3] = OkOutcome(<<"x">>)
    /\ twr.ret = <<"x">>

\* C5. Backoff schedule: the first backoff wait is sleep_between and each
\* later one is twice the one before; a wait follows a failed attempt only
\* when another attempt follows it, so a frame that has returned after n
\* calls waited n - 1 times.
BackoffSchedule ==
    /\ \A k \in 1..Len(twr.sleeps) :
          twr.sleeps[k] = IF k = 1 THEN twr.sleep_between
                          ELSE 2 * twr.sleeps[k - 1]
    /\ twr.pc = "sleep" => Len(twr.sleeps) = twr.calls
    /\ twr.pc = "call" => Len(twr.sleeps) = twr.calls - 1
    /\ twr.pc = "ret" => Len(twr.sleeps) = Max(twr.calls - 1, 0)

BackoffScheduleWitness ==
    /\ GaveUp
    /\ twr.retries = 3
    /\ twr.sleeps = <<500, 1000>>

\* C6. Empty result: a call that returns None or the empty string ends the
\* task at once with the source text; it is the last call and no backoff
\* wait follows it.
EmptyResultFallsBack ==
    \A i \in 1..Len(twr.outcomes) :
        EmptyResult(twr.outcomes[i]) =>
            /\ i = Len(twr.outcomes)
            /\ twr.pc = "ret"
            /\ twr.ret = twr.text
            /\ twr.calls = i
            /\ Len(twr.sleeps) = i - 1

EmptyResultFallsBackWitness ==
    /\ twr.pc = "ret"
    /\ Len(twr.outcomes) = 2
    /\ twr.outcomes[2] = OkOutcome(NoText)
    /\ twr.ret = <<"a">>

(* ------------------------------------------------------------------ *)
(* Properties of insert_textbox_fitted (checked under SpecFit)          *)
(* ------------------------------------------------------------------ *)
\* C10. Font-fit termination: with min_fontsize <= initial_fontsize, the
\* loop body runs at most initial_fontsize - min_fontsize + 1 times, and
\* no font size passed to page.insert_textbox is below min_fontsize.
FontFitTermination ==
    /\ fit.iters <= fit.initial_fontsize - fit.min_fontsize + 1
    /\ \A i \in 1..Len(fit.inserts) : fit.inserts[i] >= fit.min_fontsize

FontFitTerminationWitness ==
    /\ fit.pc = "ret"
    /\ fit.initial_fontsize = DefaultInitialFontsize
    /\ fit.min_fontsize = DefaultMinFontsize
    /\ Len(fit.text) = 500
    /\ fit.iters = 5
    /\ fit.inserts = <<6, 6>>

\* ceil(n / max(20, w / (s * 0.5))) * s * 1.15 <= h with the real quotient
\* w / (s * 0.5) = 2w / s, in integers: the maximum is 20 when 2w <= 20s,
\* and otherwise n / (2w / s) = n * s / 2w
FitsByRealQuotient(n, w, h, s) ==
    (IF 2 * w <= 20 * s THEN CeilDiv(n, 20) ELSE CeilDiv(n * s, 2 * w))
        * s * 115 <= h * 100

\* the same with the quotient cut to an integer before the maximum
FitsByTruncatedQuotient(n, w, h, s) ==
    LET q == (2 * w) \div s
        c == IF q > 20 THEN q ELSE 20
    IN  CeilDiv(n, c) * s * 115 <= h * 100

\* the largest size of `sizes`, or lo when there is none
LargestOr(sizes, lo) ==
    IF sizes = {} THEN lo
    ELSE CHOOSE s \in sizes : \A r \in sizes : r <= s

\* C16 as stated: the first insertion is made at the largest size s in
\* min_fontsize..initial_fontsize with
\* ceil(n / max(20, w / (s * 0.5))) * s * 1.15 <= h, or at min_fontsize when
\* there is none.
FirstSizeByRealQuotient ==
    fit.inserts # <<>> =>
        fit.inserts[1] =
            LargestOr({ s \in fit.min_fontsize..fit.initial_fontsize :
                          FitsByRealQuotient(Len(fit.text), fit.rect_w,
                                             fit.rect_h, s) },
                      fit.min_fontsize)

\* C16, amended: the first insertion is made at the largest size s in
\* min_fontsize..initial_fontsize with
\* ceil(n / max(20, floor(w / (s * 0.5)))) * s * 1.15 <= h, or at
\* min_fontsize when there is none.
FirstSizeByTruncatedQuotient ==
    fit.inserts # <<>> =>
        fit.inserts[1] =
            LargestOr({ s \in fit.min_fontsize..fit.initial_fontsize :
                          FitsByTruncatedQuotient(Len(fit.text), fit.rect_w,
                                                  fit.rect_h, s) },
                      fit.min_fontsize)

\* 111 characters in a 100 x 55 box: the real quotient gives 5 lines at
\* size 9, the truncated one 6 lines, and the text is inserted at 8
FirstSizeByTruncatedQuotientWitness ==
    /\ fit.pc = "ret"
    /\ Len(fit.text) = 111
    /\ fit.rect_w = 100 /\ fit.rect_h = 55
    /\ fit.initial_fontsize = DefaultInitialFontsize
    /\ fit.min_fontsize = DefaultMinFontsize
    /\ FitsByRealQuotient(111, 100, 55, 9)
    /\ fit.inserts = <<8>>


(* ------------------------------------------------------------------ *)
(* Properties of replace_blocks_in_pdf and of __main__                  *)
(* ------------------------------------------------------------------ *)
\* the block of translated_pages an operation of rep.ops is about
OpBlock(o) == rep.tpages[o.page][o.block]

\* the operation writes text into the original, non-inset rectangle of
\* its block
IntoOriginalRect(o) ==
    /\ o.op = "insert"
    /\ o.x0 = 10 * OpBlock(o).x0 /\ o.y0 = 10 * OpBlock(o).y0
    /\ o.x1 = 10 * OpBlock(o).x1 /\ o.y1 = 10 * OpBlock(o).y1

\* insert_textbox_fitted has returned for the block painted by rep.ops[i]:
\* a later operation exists or the document is saved
BlockDone(i) == i < Len(rep.ops) \/ rep.pc = "saved"

\* C11: every block that replace_blocks_in_pdf has painted over and is done
\* with has received, right after the paint, an insertion of non-empty text
\* into its original rectangle: no block is left painted over and blank.
NeverBlank ==
    \A i \in 1..Len(rep.ops) :
        (rep.ops[i].op = "paint" /\ BlockDone(i)) =>
            /\ i < Len(rep.ops)
            /\ rep.ops[i + 1].page = rep.ops[i].page
            /\ rep.ops[i + 1].block = rep.ops[i].block
            /\ IntoOriginalRect(rep.ops[i + 1])
            /\ rep.ops[i + 1].text # NoText

\* C12: a rejected insertion is retried once at min_fontsize, and a
\* rejection of that retry does not leave insert_textbox_fitted or
\* replace_blocks_in_pdf as an error.
RejectionsAbsorbed ==
    /\ Len(fit.inserts) <= 2
    /\ Len(fit.inserts) = 2 => fit.inserts[2] = fit.min_fontsize
    /\ fit.pc # "raised"
    /\ rep.pc # "raised"

\* C13: when the document has more pages than translated_pages,
\* replace_blocks_in_pdf paints and inserts nothing on the pages beyond,
\* raises no error, works through the translated pages and saves the
\* document.
PartialTranslationSaved ==
    rep.npages > Len(rep.tpages) =>
        /\ \A i \in 1..Len(rep.ops) : rep.ops[i].page <= Len(rep.tpages)
        /\ rep.pc # "raised"
        /\ rep.pc = "saved" =>
              Len(SelectSeq(rep.ops, LAMBDA o : o.op = "paint"))
                  = Len(Flatten(rep.tpages))

\* a text made of blanks only (the empty text included)
Blank(text) == \A i \in 1..Len(text) : text[i] = " "

\* a raw block extraction has to skip
Skipped(rb) == rb.nfields < 5 \/ Blank(rb.text)

\* the number of raw blocks of page p that extraction keeps
Kept(p) ==
    Cardinality({ j \in 1..Len(raw_doc.pages[p]) : ~Skipped(raw_doc.pages[p][j]) })

\* the rectangle is the one of a skipped raw block of page p
OnSkipped(p, x0, y0, x1, y1) ==
    \E j \in 1..Len(raw_doc.pages[p]) :
        /\ Skipped(raw_doc.pages[p][j])
        /\ raw_doc.pages[p][j].x0 = x0 /\ raw_doc.pages[p][j].y0 = y0
        /\ raw_doc.pages[p][j].x1 = x1 /\ raw_doc.pages[p][j].y1 = y1

\* C14: once extraction has run, a raw block with fewer than 5 fields or
\* with blank text has no extracted block, no task, no result entry, no
\* paint and no insertion, and extraction raised no error; every block that
\* entered the pipeline has non-empty text without blanks around it.
EmptyBlocksNeverEnter ==
    (mpc # "extract" /\ raw_doc.openable) =>
        /\ mpc # "raised" \/ rep.pc = "raised"
        /\ Len(pages_blocks) = Len(raw_doc.pages)
        /\ \A p \in 1..Len(pages_blocks) :
              /\ Len(pages_blocks[p]) = Kept(p)
              /\ \A b \in 1..Len(pages_blocks[p]) :
                    /\ pages_blocks[p][b].text # NoText
                    /\ pages_blocks[p][b].text[1] # " "
                    /\ pages_blocks[p][b].text[Len(pages_blocks[p][b].text)] # " "
                    /\ ~OnSkipped(p, pages_blocks[p][b].x0, pages_blocks[p][b].y0,
                                  pages_blocks[p][b].x1, pages_blocks[p][b].y1)
        /\ \A t \in TaskIds :
              /\ tasks[t][1] + 1 \in 1..Len(pages_blocks)
              /\ tasks[t][2] + 1 \in 1..Kept(tasks[t][1] + 1)
              /\ ~Blank(tasks[t][3])
        /\ \A k \in DOMAIN translated_map : \E t \in TaskIds : k = Key(t)
        /\ \A i \in 1..Len(rep.ops) :
              /\ rep.ops[i].block <= Kept(rep.ops[i].page)
              /\ rep.ops[i].op = "insert" =>
                    ~OnSkipped(rep.ops[i].page,
                               rep.ops[i].x0 \div 10, rep.ops[i].y0 \div 10,
                               rep.ops[i].x1 \div 10, rep.ops[i].y1 \div 10)
              /\ rep.ops[i].op = "paint" =>
                    ~OnSkipped(rep.ops[i].page,
                               (rep.ops[i].x0 + Inset10) \div 10,
                               (rep.ops[i].y0 + Inset10) \div 10,
                               (rep.ops[i].x1 - Inset10) \div 10,
                               (rep.ops[i].y1 - Inset10) \div 10)

\* a document with skipped raw blocks of every kind next to kept ones has
\* gone through extraction, translation and composition
EmptyBlocksNeverEnterWitness ==
    /\ mpc = "done"
    /\ \E p \in 1..Len(raw_doc.pages) :
          /\ Kept(p) >= 1
          /\ \E j \in 1..Len(raw_doc.pages[p]) : raw_doc.pages[p][j].nfields < 5
          /\ \E j \in 1..Len(raw_doc.pages[p]) :
                /\ raw_doc.pages[p][j].nfields >= 5
                /\ Blank(raw_doc.pages[p][j].text)
    /\ \E i \in 1..Len(rep.ops) : rep.ops[i].op = "insert"

\* C15: when the source document cannot be opened, the error reaches the
\* caller of extract_blocks_from_pdf and ends the run: translate_blocks_deep
\* is never called, no backend call is issued, and replace_blocks_in_pdf
\* never runs, so no output document is written.
ExtractionFatalAborts ==
    (mpc # "extract" /\ ~raw_doc.openable) =>
        /\ mpc = "raised"
        /\ pc = "idle"
        /\ tasks = <<>>
        /\ frame = <<>>
        /\ translated_pages = <<>>
        /\ rep = NoRep

ExtractionFatalAbortsWitness ==
    /\ ~raw_doc.openable
    /\ mpc = "raised"


(* ------------------------------------------------------------------ *)
(* Properties of the result map and of the order of blocks              *)
(* ------------------------------------------------------------------ *)
\* the result map a backend that answers by the text alone must lead to
PureMap(ts) ==
    [k \in { <<ts[t][1], ts[t][2]>> : t \in 1..Len(ts) } |->
        LET t == CHOOSE u \in 1..Len(ts) : <<ts[u][1], ts[u][2]>> = k
        IN  PureAnswer(ts[t][3]).val]

\* C17: whatever the interleaving of the workers and the order in which
\* the tasks complete, the result map holds exactly the identities of the
\* tasks collected so far, each with the value its own task produced; with
\* a backend that answers by the text alone, the map once every task is
\* collected is the one map determined by the input.
CompletionOrderIndependence ==
    /\ pc # "raised" =>
          /\ DOMAIN translated_map = { Key(t) : t \in yielded }
          /\ \A t \in yielded : translated_map[Key(t)] = fresult[t].text
    /\ (backend = "pure" /\ pc \in {"reassemble", "returned"}) =>
          translated_map = PureMap(tasks)

\* a later task has been collected before an earlier one
CompletionOrderIndependenceWitness ==
    /\ backend = "pure"
    /\ pc = "collect"
    /\ \E t \in yielded : \E u \in TaskIds \ yielded : u < t
    /\ \E t \in yielded, u \in yielded : translated_map[Key(t)] # translated_map[Key(u)]

\* the k-th paint of rep.ops is made on the k-th block in the order of
\* extraction, over its rectangle widened by the inset
PaintsInOrder ==
    LET paints == SelectSeq(rep.ops, LAMBDA o : o.op = "paint")
        order == Flatten(pages_blocks)
    IN  /\ Len(paints) <= Len(order)
        /\ \A k \in 1..Len(paints) :
              /\ paints[k].page = order[k][1] + 1
              /\ paints[k].block = order[k][2] + 1
              /\ paints[k].x0 + Inset10 = 10 * pages_blocks[paints[k].page][paints[k].block].x0
              /\ paints[k].y0 + Inset10 = 10 * pages_blocks[paints[k].page][paints[k].block].y0
              /\ paints[k].x1 - Inset10 = 10 * pages_blocks[paints[k].page][paints[k].block].x1
              /\ paints[k].y1 - Inset10 = 10 * pages_blocks[paints[k].page][paints[k].block].y1

\* C18: translate_blocks_deep returns as many pages and, per page, as many
\* blocks as it was given, block (p, i) with the coordinates of input block
\* (p, i); its input is still what extraction produced; and
\* replace_blocks_in_pdf goes through the blocks in the order of extraction.
StructurePreserved ==
    /\ (mpc # "extract" /\ raw_doc.openable) =>
          pages_blocks = ExtractBlocks(raw_doc.pages)
    /\ pc = "returned" =>
          /\ Len(translated_pages) = Len(pages_blocks)
          /\ \A p \in 1..Len(pages_blocks) :
                /\ Len(translated_pages[p]) = Len(pages_blocks[p])
                /\ \A b \in 1..Len(pages_blocks[p]) :
                      /\ translated_pages[p][b].x0 = pages_blocks[p][b].x0
                      /\ translated_pages[p][b].y0 = pages_blocks[p][b].y0
                      /\ translated_pages[p][b].x1 = pages_blocks[p][b].x1
                      /\ translated_pages[p][b].y1 = pages_blocks[p][b].y1
    /\ PaintsInOrder

\* a document of two pages with blocks on both has been translated, with
\* some text changed, and composed
StructurePreservedWitness ==
    /\ mpc = "done"
    /\ Len(pages_blocks) = 2
    /\ Len(pages_blocks[1]) >= 1 /\ Len(pages_blocks[2]) >= 2
    /\ translated_pages # pages_blocks
    /\ Len(SelectSeq(rep.ops, LAMBDA o : o.op = "paint")) = Len(tasks)


(* ------------------------------------------------------------------ *)
(* Properties of the life of a task                                     *)
(* ------------------------------------------------------------------ *)
\* the state of task t: IN_FLIGHT while a backend call is made for it,
\* RETRY_WAIT during a backoff sleep, terminal once its future is finished,
\* PENDING before its first call
TaskState(t) ==
    IF fut[t] = "FINISHED"
    THEN IF fresult[t].exc THEN "FAILED"
         ELSE IF fresult[t].text = tasks[t][3] THEN "SUCCEEDED_WITH_FALLBACK"
         ELSE "SUCCEEDED"
    ELSE IF frame[t].pc = "call" THEN "IN_FLIGHT"
    ELSE IF frame[t].pc = "sleep" THEN "RETRY_WAIT"
    ELSE "PENDING"

Terminal == { "SUCCEEDED", "SUCCEEDED_WITH_FALLBACK" }

TaskTransitions ==
    ({"PENDING"} \X {"IN_FLIGHT"})
        \cup ({"IN_FLIGHT"} \X ({"RETRY_WAIT"} \cup Terminal))
        \cup ({"RETRY_WAIT"} \X {"IN_FLIGHT"})

\* C19: a task changes state only from PENDING to IN_FLIGHT, from IN_FLIGHT
\* to RETRY_WAIT or to a terminal state, and from RETRY_WAIT to IN_FLIGHT;
\* no task has more than DefaultRetries backend calls made for it; and
\* translate_blocks_deep eventually returns with every task in a terminal
\* state.
EveryTaskTerminates ==
    /\ [][\A t \in TaskIds :
             \/ TaskState(t)' = TaskState(t)
             \/ <<TaskState(t), TaskState(t)'>> \in TaskTransitions]_vars
    /\ [](\A t \in TaskIds : frame[t].calls <= DefaultRetries)
    /\ <>(pc = "returned" /\ \A t \in TaskIds : TaskState(t) \in Terminal)

\* a run has returned with a task that succeeded at once and a task that
\* fell back to its source text
EveryTaskTerminatesWitness ==
    /\ pc = "returned"
    /\ Len(tasks) = MaxBlocks
    /\ \E t \in TaskIds : TaskState(t) = "SUCCEEDED"
    /\ \E t \in TaskIds : TaskState(t) = "SUCCEEDED_WITH_FALLBACK"

\* C20: once the deadline is exceeded, translate_blocks_deep returns, with
\* the source text for every task that was still pending.
DeadlineFallback ==
    (deadline = "exceeded") ~>
        (pc = "returned" /\ \A t \in TaskIds \ yielded :
                               translated_pages[tasks[t][1] + 1][tasks[t][2] + 1].text
                                   = tasks[t][3])

====
